---- MODULE Spec2Model ----
(***************************************************************************)
(* Model of the Prellblock C benchmark client, src/c-client/client.cpp.    *)
(*                                                                         *)
(* main() takes a start timestamp, creates one client, formats the loop    *)
(* counter into a 10 byte buffer and sends it NUM_TX times, destroys the   *)
(* client, takes the end timestamp, prints the report and returns 0.       *)
(*                                                                         *)
(* The program counter pc names the source line that executes next.        *)
(* The library behind prellblock-client.h is not part of the sources; its  *)
(* three entry points are modelled by their contract: create may fail and  *)
(* then yields no client, send blocks until an acknowledgment or an error, *)
(* destroy releases the client.                                            *)
(*                                                                         *)
(* NUM_TX is a compile time macro.  The driver is explored for every       *)
(* configured count numTx in 0..MaxNumTx; the formatting of the counter is *)
(* explored for every index below the NUM_TX of the source (SpecFmt).      *)
(*                                                                         *)
(* Bytes are naturals: 48..57 are the characters '0'..'9', 0 is NUL.       *)
(***************************************************************************)
EXTENDS Integers, Sequences, FiniteSets, TLC

VARIABLES
    pc,            \* source line that executes next, "done", "fault"
    numTx,         \* the configured NUM_TX of this build
    storage,       \* where the build placed the const array number
    clock,         \* std::chrono::system_clock, in microseconds
    start,         \* line 13
    end,           \* line 26
    client,        \* line 15: "null" or "handle"
    i,             \* loop counter, line 18
    number,        \* const char number[10], line 17
    overrun,       \* sprintf wrote past the end of number
    calls,         \* the send_key_value calls issued so far, in order
    outstanding,   \* send_key_value calls that have not returned yet
    acks,          \* send_key_value calls that returned an acknowledgment
    fails,         \* send_key_value calls that returned an error
    creates,       \* create_client_instance calls that returned a client
    destroys,      \* destroy_client_instance calls
    events,        \* order of the timestamps and library calls
    report,        \* what lines 29-36 printed
    exitStatus     \* process exit status, -1 while running

vars == <<pc, numTx, storage, clock, start, end, client, i, number, overrun,
          calls, outstanding, acks, fails, creates, destroys, events, report,
          exitStatus>>

\* ---------------------------------------------------------------- bounds
MaxNumTx == 11
MaxClock == 2

\* ------------------------------------------------------ program constants
NUM_TX == 10000

NumberSizeShort == 4
NumberSize == 10

KeyPerIndex(k) == IF k = 0 THEN "prellblock" ELSE "prellblock1"
Key(k) == "prellblock"

\* ------------------------------------------------------- pure helpers
Zeros(n) == [k \in 1..n |-> 0]

\* "%lu": the decimal digits of n, most significant first, no padding
RECURSIVE DecDigits(_)
DecDigits(n) ==
    IF n < 10 THEN <<48 + n>>
    ELSE Append(DecDigits(n \div 10), 48 + (n % 10))

\* sprintf(buf, "%lu", n): the digits and the terminating NUL are stored from
\* the first byte on; bytes that do not fit in buf are written past its end.
sprintf(buf, n) ==
    LET s == DecDigits(n) \o <<0>>
    IN  [buf     |-> [k \in 1..Len(buf) |-> IF k <= Len(s) THEN s[k] ELSE buf[k]],
         overrun |-> Len(s) > Len(buf)]

\* The C string the callee reads from buf: the bytes before the first NUL.
RECURSIVE CStrFrom(_, _)
CStrFrom(buf, k) ==
    IF k > Len(buf) \/ buf[k] = 0 THEN <<>>
    ELSE <<buf[k]>> \o CStrFrom(buf, k + 1)

CStr(buf) == CStrFrom(buf, 1)

\* (double)a / b of line 34 with b = microseconds / 1000 / 1000, kept exact
\* as a fraction; a zero divisor yields the IEEE results inf or nan.
FDiv(a, us) ==
    [kind   |-> IF us # 0 THEN "finite" ELSE IF a = 0 THEN "nan" ELSE "inf",
     num    |-> a * 1000000,
     den    |-> us,
     byZero |-> us = 0]

NoReport == [count |-> -1, us |-> -1,
             tps |-> [kind |-> "none", num |-> 0, den |-> 0, byZero |-> FALSE]]

\* ------------------------------------------------- the client library
\* The results a call of the library can have, from its contract.
\* create_client_instance: a client, or none when the endpoint is unreachable
\* or the credential is rejected
create_client_instance == {"handle", "null"}

\* send_key_value: an acknowledgment or an error; always an error without an
\* open client
send_key_value(c) == IF c = "handle" THEN {"ack", "error"} ELSE {"error"}

\* ------------------------------------------------------------- Init
Init ==
    /\ pc = "l13"
    /\ numTx \in 0..MaxNumTx
    /\ storage \in {"stack", "rodata"}
    /\ clock = 0
    /\ start = -1
    /\ end = -1
    /\ client = "null"
    /\ i = 0
    /\ number = Zeros(NumberSize)
    /\ overrun = FALSE
    /\ calls = <<>>
    /\ outstanding = 0
    /\ acks = 0
    /\ fails = 0
    /\ creates = 0
    /\ destroys = 0
    /\ events = <<>>
    /\ report = NoReport
    /\ exitStatus = -1

\* ------------------------------------------------------------ actions
\* the wall clock advances while the process runs
Tick ==
    /\ pc \notin {"done", "fault"}
    /\ clock < MaxClock
    /\ clock' = clock + 1
    /\ UNCHANGED <<pc, numTx, storage, start, end, client, i, number, overrun,
                   calls, outstanding, acks, fails, creates, destroys, events,
                   report, exitStatus>>

\* line 13: start = system_clock::now()
TakeStart ==
    /\ pc = "l13"
    /\ start' = clock
    /\ events' = Append(events, "start")
    /\ pc' = "l15"
    /\ UNCHANGED <<numTx, storage, clock, end, client, i, number, overrun,
                   calls, outstanding, acks, fails, creates, destroys, report,
                   exitStatus>>

\* line 15: create_client_instance(...) is entered
CreateCall ==
    /\ pc = "l15"
    /\ events' = Append(events, "create")
    /\ pc' = "l15wait"
    /\ UNCHANGED <<numTx, storage, clock, start, end, client, i, number,
                   overrun, calls, outstanding, acks, fails, creates, destroys,
                   report, exitStatus>>

\* line 15: create_client_instance returns a client, or none on failure;
\* the result is stored without a check
CreateReturn ==
    /\ pc = "l15wait"
    /\ \E c \in create_client_instance :
          /\ client' = c
          /\ creates' = IF c = "handle" THEN creates + 1 ELSE creates
    /\ pc' = "l17"
    /\ UNCHANGED <<numTx, storage, clock, start, end, i, number, overrun,
                   calls, outstanding, acks, fails, destroys, events, report,
                   exitStatus>>

\* line 17 and the initialisation of the loop: number = {0}, i = 0
DeclNumber ==
    /\ pc = "l17"
    /\ number' = Zeros(NumberSize)
    /\ i' = 0
    /\ pc' = "l18"
    /\ UNCHANGED <<numTx, storage, clock, start, end, client, overrun, calls,
                   outstanding, acks, fails, creates, destroys, events, report,
                   exitStatus>>

\* line 18: i < NUM_TX
LoopTestInclusive ==
    /\ pc = "l18"
    /\ pc' = IF i <= numTx THEN "l20" ELSE "l24"
    /\ UNCHANGED <<numTx, storage, clock, start, end, client, i, number,
                   overrun, calls, outstanding, acks, fails, creates, destroys,
                   events, report, exitStatus>>

LoopTest ==
    /\ pc = "l18"
    /\ pc' = IF i < numTx THEN "l20" ELSE "l24"
    /\ UNCHANGED <<numTx, storage, clock, start, end, client, i, number,
                   overrun, calls, outstanding, acks, fails, creates, destroys,
                   events, report, exitStatus>>

\* line 20: sprintf((char *)number, "%lu", i), the array is writable
SprintfStore ==
    /\ pc = "l20"
    /\ storage = "stack"
    /\ number' = sprintf(number, i).buf
    /\ overrun' = (overrun \/ sprintf(number, i).overrun)
    /\ pc' = "l21"
    /\ UNCHANGED <<numTx, storage, clock, start, end, client, i, calls,
                   outstanding, acks, fails, creates, destroys, events, report,
                   exitStatus>>

\* line 20: number is a const object and the store into it is undefined; a
\* build that keeps the array in read-only storage faults on the store
SprintfFault ==
    /\ pc = "l20"
    /\ storage = "rodata"
    /\ pc' = "fault"
    /\ exitStatus' = 139
    /\ UNCHANGED <<numTx, storage, clock, start, end, client, i, number,
                   overrun, calls, outstanding, acks, fails, creates, destroys,
                   events, report>>

\* line 21: send_key_value(client, "prellblock", number) is entered
SendCallPipelined ==
    /\ pc = "l21"
    /\ calls' = Append(calls, [client |-> client, key |-> Key(i),
                               value |-> CStr(number)])
    /\ outstanding' = outstanding + 1
    /\ events' = Append(events, "send")
    /\ i' = i + 1
    /\ pc' = "l18"
    /\ UNCHANGED <<numTx, storage, clock, start, end, client, number, overrun,
                   acks, fails, creates, destroys, report, exitStatus>>

SendCall ==
    /\ pc = "l21"
    /\ calls' = Append(calls, [client |-> client, key |-> Key(i),
                               value |-> CStr(number)])
    /\ outstanding' = outstanding + 1
    /\ events' = Append(events, "send")
    /\ pc' = "l21wait"
    /\ UNCHANGED <<numTx, storage, clock, start, end, client, i, number,
                   overrun, acks, fails, creates, destroys, report, exitStatus>>

\* line 21 returns and line 18 increments: the call ends with an
\* acknowledgment or an error; the result is not looked at
SendReturn ==
    /\ pc = "l21wait"
    /\ \E r \in send_key_value(client) :
          /\ acks' = IF r = "ack" THEN acks + 1 ELSE acks
          /\ fails' = IF r = "ack" THEN fails ELSE fails + 1
    /\ outstanding' = outstanding - 1
    /\ i' = i + 1
    /\ pc' = "l18"
    /\ UNCHANGED <<numTx, storage, clock, start, end, client, number, overrun,
                   calls, creates, destroys, events, report, exitStatus>>

\* line 24: destroy_client_instance(client)
DestroySkipped ==
    /\ pc = "l24"
    /\ pc' = "l26"
    /\ UNCHANGED <<numTx, storage, clock, start, end, client, i, number,
                   overrun, calls, outstanding, acks, fails, creates, destroys,
                   events, report, exitStatus>>

Destroy ==
    /\ pc = "l24"
    /\ destroys' = destroys + 1
    /\ events' = Append(events, "destroy")
    /\ pc' = "l26"
    /\ UNCHANGED <<numTx, storage, clock, start, end, client, i, number,
                   overrun, calls, outstanding, acks, fails, creates, report,
                   exitStatus>>

\* line 26: end = system_clock::now()
TakeEnd ==
    /\ pc = "l26"
    /\ end' = clock
    /\ events' = Append(events, "end")
    /\ pc' = "l27"
    /\ UNCHANGED <<numTx, storage, clock, start, client, i, number, overrun,
                   calls, outstanding, acks, fails, creates, destroys, report,
                   exitStatus>>

\* lines 27-36: the elapsed time and NUM_TX / seconds are computed and printed
Report ==
    /\ pc = "l27"
    /\ report' = [count |-> numTx, us |-> end - start,
                  tps |-> FDiv(numTx, end - start)]
    /\ pc' = "l38"
    /\ UNCHANGED <<numTx, storage, clock, start, end, client, i, number,
                   overrun, calls, outstanding, acks, fails, creates, destroys,
                   events, exitStatus>>

\* line 38: return 0
ReturnEarly ==
    /\ pc \in {"l27", "l38"}
    /\ exitStatus' = 0
    /\ pc' = "done"
    /\ UNCHANGED <<numTx, storage, clock, start, end, client, i, number,
                   overrun, calls, outstanding, acks, fails, creates, destroys,
                   events, report>>

Return ==
    /\ pc = "l38"
    /\ exitStatus' = 0
    /\ pc' = "done"
    /\ UNCHANGED <<numTx, storage, clock, start, end, client, i, number,
                   overrun, calls, outstanding, acks, fails, creates, destroys,
                   events, report>>

Next ==
    \/ Tick
    \/ TakeStart
    \/ CreateCall
    \/ CreateReturn
    \/ DeclNumber
    \/ LoopTest
    \/ SprintfStore
    \/ SprintfFault
    \/ SendCall
    \/ SendReturn
    \/ Destroy
    \/ TakeEnd
    \/ Report
    \/ Return

Spec == Init /\ [][Next]_vars

\* ------------------------------------------- formatting of the counter
\* every index of the loop of the source, 0..NUM_TX-1, formatted once into a
\* fresh buffer
InitFmt ==
    /\ pc = "l20"
    /\ numTx = NUM_TX
    /\ storage = "stack"
    /\ clock = 0
    /\ start = 0
    /\ end = -1
    /\ client = "handle"
    /\ i \in 0..(NUM_TX - 1)
    /\ number = Zeros(NumberSize)
    /\ overrun = FALSE
    /\ calls = <<>>
    /\ outstanding = 0
    /\ acks = 0
    /\ fails = 0
    /\ creates = 1
    /\ destroys = 0
    /\ events = <<"start", "create">>
    /\ report = NoReport
    /\ exitStatus = -1

NextFmt ==
    \/ SprintfStore

SpecFmt == InitFmt /\ [][NextFmt]_vars

\* ------------------------------------------------------------ properties
\* the number a string of decimal digits denotes
RECURSIVE DecValue(_)
DecValue(v) ==
    IF Len(v) = 0 THEN 0
    ELSE DecValue(SubSeq(v, 1, Len(v) - 1)) * 10 + (v[Len(v)] - 48)

\* v is the decimal string of k: digits only, no leading zero, value k
IsDecimalOf(v, k) ==
    /\ Len(v) >= 1
    /\ \A d \in 1..Len(v) : v[d] \in 48..57
    /\ Len(v) > 1 => v[1] # 48
    /\ DecValue(v) = k

\* the driver state of section 4.3 that a position of main() belongs to; an
\* abnormal termination is the terminal failure
DriverStateOf(p) ==
    CASE p \in {"l13", "l15"} -> "Idle"
      [] p = "l15wait" -> "Connecting"
      [] p \in {"l17", "l18", "l20", "l21", "l21wait"} -> "Running"
      [] p \in {"l24", "l26", "l27", "l38"} -> "Reporting"
      [] p = "done" -> "Done"
      [] p = "fault" -> "Failed"

DriverTransitions ==
    {<<"Idle", "Connecting">>, <<"Connecting", "Running">>,
     <<"Running", "Reporting">>, <<"Reporting", "Done">>,
     <<"Connecting", "Failed">>, <<"Running", "Failed">>}

\* C1: the k-th send_key_value call (k from 0) carries the decimal string of
\* k, so the values are "0", "1", ... without gap, duplicate or reordering,
\* and a run that returns after the connection opened and no send failed has
\* issued exactly numTx calls.
C1_SubmitsZeroToN ==
    /\ \A k \in 1..Len(calls) : IsDecimalOf(calls[k].value, k - 1)
    /\ (pc = "done" /\ creates = 1 /\ fails = 0) => Len(calls) = numTx

C1_Witness ==
    /\ pc = "done"
    /\ creates = 1
    /\ fails = 0
    /\ numTx > 10
    /\ Len(calls) = numTx

\* C2: when create_client_instance fails, no transaction is submitted, the
\* run does not end in Done and the exit status is not zero.
C2_ConnectFailureAborts ==
    (creates = 0 /\ pc \notin {"l13", "l15", "l15wait"}) =>
        /\ calls = <<>>
        /\ pc # "done"
        /\ exitStatus # 0

\* C3: at the end of every run the reported successful count equals the
\* number of send_key_value calls that returned an acknowledgment.
C3_ReportedCountIsAcks ==
    pc = "done" => report.count = acks

C5_IntervalCoversLoopOnly ==
    \A a, b \in 1..Len(events) :
        /\ (events[a] = "create" /\ events[b] = "start") => a < b
        /\ (events[a] = "start" /\ events[b] = "send") => a < b
        /\ (events[a] = "send" /\ events[b] = "end") => a < b
        /\ (events[a] = "end" /\ events[b] = "destroy") => a < b

\* C6: the reported TPS is the successful count divided by the elapsed time;
\* with a zero elapsed time the report carries a sentinel and no division by
\* zero is performed; a run with a count of zero exits with status zero.
C6_TpsGuarded ==
    pc = "done" =>
        /\ report.us = 0 =>
               /\ report.tps.kind # "finite"
               /\ ~report.tps.byZero
        /\ report.us > 0 =>
               /\ report.tps.kind = "finite"
               /\ report.tps.num * report.us = acks * 1000000 * report.tps.den
        /\ numTx = 0 => exitStatus = 0

\* C7: any two send_key_value calls of a run carry the same key, the
\* constant "prellblock".
C7_SameNamespace ==
    \A a, b \in 1..Len(calls) :
        /\ calls[a].key = calls[b].key
        /\ calls[a].key = "prellblock"

C7_Witness ==
    /\ Len(calls) >= 3
    /\ fails >= 1

\* C8: the driver state only changes along Idle, Connecting, Running,
\* Reporting, Done or from Connecting or Running to Failed; Done is reached
\* only after the report was printed; the process has exited exactly in Done
\* and Failed, with status zero exactly in Done.
C8_DriverStateMachine ==
    /\ [][DriverStateOf(pc') # DriverStateOf(pc) =>
              <<DriverStateOf(pc), DriverStateOf(pc')>> \in DriverTransitions]_vars
    /\ [](DriverStateOf(pc) = "Done" => report # NoReport)
    /\ [](exitStatus = 0 <=> DriverStateOf(pc) = "Done")
    /\ [](exitStatus # -1 <=> DriverStateOf(pc) \in {"Done", "Failed"})

C8_Witness ==
    /\ pc = "done"
    /\ numTx >= 1
    /\ Len(calls) = numTx
    /\ report.count = numTx
    /\ exitStatus = 0

\* C9: at most one send_key_value call is outstanding; a call is issued only
\* when the previous one has returned, after create_client_instance returned
\* and before destroy_client_instance; the client is destroyed only when no
\* call is outstanding.
C9_OneOutstanding ==
    /\ [](outstanding \in {0, 1})
    /\ [][calls' # calls =>
              /\ outstanding = 0
              /\ acks + fails = Len(calls)
              /\ pc \notin {"l13", "l15", "l15wait"}
              /\ destroys = 0]_vars
    /\ [][destroys' # destroys => outstanding = 0]_vars

C9_Witness ==
    /\ outstanding = 1
    /\ Len(calls) >= 2
    /\ acks + fails = Len(calls) - 1

\* C10: for every index i below NUM_TX the digits of i and the terminator fit
\* in number: sprintf writes nothing past its end and the value read back is
\* the complete decimal string of i.
C10_ValueFits ==
    pc = "l21" =>
        /\ ~overrun
        /\ Len(CStr(number)) + 1 <= NumberSize
        /\ IsDecimalOf(CStr(number), i)

C10_Witness ==
    /\ pc = "l21"
    /\ i = NUM_TX - 1
    /\ Len(CStr(number)) = 4

====
